---- MODULE Spec2Model ----
(***************************************************************************)
(* Model of src/src/data.jsx: generateTreeData and its helpers             *)
(* (generateEntriesForAllLevels, generateValues, normalizeAllLevelValues,  *)
(* normalizeValuesForMonth).                                               *)
(*                                                                         *)
(* JavaScript numbers are modelled as records [k, n]: k = "num" carries    *)
(* the integer n, k = "inf" carries the sign n of an infinity, k = "nan"   *)
(* is NaN.  Labels are strings, modelled as sequences of characters so     *)
(* that Array.prototype.join is real concatenation.  Math.random() is a    *)
(* draw r / RandDen with r in RandomNums.  A JavaScript value that may or  *)
(* may not be an array is a record [arr, items].                           *)
(*                                                                         *)
(* Products v * (C / S) are rounded from the exact quotient; on the        *)
(* inputs enumerated here the double-precision product rounds the same     *)
(* way.                                                                    *)
(***************************************************************************)
EXTENDS Integers, Sequences, FiniteSets, TLC

VARIABLES cfg, pc, result, raw, level, draws

vars == <<cfg, pc, result, raw, level, draws>>

(***************************************************************************)
(* Bounds of the model.                                                    *)
(***************************************************************************)
MaxSiblings == 4
MaxOutcomes == 256
RandDen == 60

RandomNums == {0, RandDen - 1}

(***************************************************************************)
(* JavaScript numbers.                                                     *)
(***************************************************************************)
Num(n) == [k |-> "num", n |-> n]
NaN == [k |-> "nan", n |-> 0]
Infinity(s) == [k |-> "inf", n |-> s]

Sign(n) == IF n > 0 THEN 1 ELSE IF n < 0 THEN -1 ELSE 0

JsNeg(a) == IF a.k = "nan" THEN NaN ELSE [k |-> a.k, n |-> -a.n]

JsAdd(a, b) ==
  IF a.k = "nan" \/ b.k = "nan" THEN NaN
  ELSE IF a.k = "inf" /\ b.k = "inf" THEN (IF a.n = b.n THEN a ELSE NaN)
  ELSE IF a.k = "inf" THEN a
  ELSE IF b.k = "inf" THEN b
  ELSE Num(a.n + b.n)

JsSub(a, b) == JsAdd(a, JsNeg(b))

\* Math.round(p / q) for integers p, q with q # 0: floor(p / q + 1/2).
MathRound(p, q) ==
  IF q > 0 THEN (2 * p + q) \div (2 * q)
  ELSE (2 * (-p) + (-q)) \div (2 * (-q))

\* A slip: the default 100 written in place of the sumConstraint parameter.
ScaleFactorDefault(sumConstraint, currentSum) ==
  IF currentSum.k = "nan" THEN [k |-> "nan", n |-> 0, d |-> 1]
  ELSE IF currentSum.k = "inf" THEN [k |-> "rat", n |-> 0, d |-> 1]
  ELSE IF currentSum.n = 0 THEN [k |-> "inf", n |-> 1, d |-> 1]
  ELSE [k |-> "rat", n |-> 100, d |-> currentSum.n]

\* sumConstraint / currentSum, kept as a fraction n / d, an infinity or NaN.
ScaleFactor(sumConstraint, currentSum) ==
  IF currentSum.k = "nan" THEN [k |-> "nan", n |-> 0, d |-> 1]
  ELSE IF currentSum.k = "inf" THEN [k |-> "rat", n |-> 0, d |-> 1]
  ELSE IF currentSum.n = 0
       THEN (IF sumConstraint = 0 THEN [k |-> "nan", n |-> 0, d |-> 1]
             ELSE [k |-> "inf", n |-> Sign(sumConstraint), d |-> 1])
  ELSE [k |-> "rat", n |-> sumConstraint, d |-> currentSum.n]

\* Math.round(value * scaleFactor)
ScaleAndRound(value, sf) ==
  IF value.k = "nan" \/ sf.k = "nan" THEN NaN
  ELSE IF value.k = "inf"
       THEN (IF sf.k = "inf" THEN Infinity(value.n * sf.n)
             ELSE IF sf.n = 0 THEN NaN
             ELSE Infinity(value.n * Sign(sf.n) * Sign(sf.d)))
  ELSE IF sf.k = "inf"
       THEN (IF value.n = 0 THEN NaN ELSE Infinity(Sign(value.n) * sf.n))
  ELSE Num(MathRound(value.n * sf.n, sf.d))

(***************************************************************************)
(* Configurations.                                                         *)
(***************************************************************************)
Arr(s) == [arr |-> TRUE, items |-> s]
NotArray == [arr |-> FALSE, items |-> <<>>]

LabelList == << <<"A">>, <<"B">>, <<"C">>, <<"D">>, <<"E">>, <<"F">> >>

FlatShapes == { Arr(<<Arr(SubSeq(LabelList, 1, n))>>) : n \in 1..MaxSiblings }

DeepShapes ==
  { Arr(<<Arr(<<<<"A">>, <<"B">>>>), Arr(<<<<"x">>, <<"y">>>>)>>),
    Arr(<<Arr(<<<<"A">>>>), Arr(<<<<"x">>, <<"y">>>>), Arr(<<<<"p">>>>)>>),
    Arr(<<Arr(<<<<"a">>, <<"a", "|", "b">>>>),
          Arr(<<<<"b", "|", "c">>, <<"c">>>>),
          Arr(<<<<"x">>>>)>>) }

InvalidShapes ==
  { NotArray,
    Arr(<<>>),
    Arr(<<Arr(<<>>)>>),
    Arr(<<Arr(<<<<"A">>, <<"B">>>>), Arr(<<>>)>>),
    Arr(<<Arr(<<<<"A">>, <<"B">>>>), NotArray>>) }

Shapes == FlatShapes \cup DeepShapes \cup InvalidShapes

Constraints == {0, 1, 2, 100}

Ranges ==
  { [min |-> 0, max |-> 0], [min |-> -1, max |-> 1], [min |-> 5, max |-> 5],
    [min |-> 33, max |-> 33], [min |-> 100, max |-> 100],
    [min |-> 20, max |-> 40] }

MonthLists == { <<"2025-01">>, <<"2025-01", "2025-02">> }

Range(s) == { s[i] : i \in DOMAIN s }

(***************************************************************************)
(* generateValues                                                          *)
(***************************************************************************)
\* Math.floor(Math.random() * (ranges.max - ranges.min + 1)) + ranges.min
BaseValue(r, ranges) ==
  ((r * (ranges.max - ranges.min + 1)) \div RandDen) + ranges.min

\* Math.round(baseValue * (1 + (Math.random() * 0.1 - 0.05)))
ForecastValue(baseValue, r) ==
  MathRound(baseValue * (19 * RandDen + 2 * r), 20 * RandDen)

\* A slip: the + 1 left out, giving 0..29.
RelValueZeroBased(r) == (r * 30) \div RandDen

\* Math.floor(Math.random() * 30) + 1
RelValue(r) == ((r * 30) \div RandDen) + 1

\* The values record built from the draws d[month] = <<r1, r2, r3>>.
ValuesFromDraws(months, ranges, includeRel, d) ==
  [plan |-> [m \in Range(months) |-> Num(BaseValue(d[m][1], ranges))],
   forecast |-> [m \in Range(months) |->
                   Num(ForecastValue(BaseValue(d[m][1], ranges), d[m][2]))],
   rel |-> [m \in (IF includeRel THEN Range(months) ELSE {}) |->
              Num(RelValue(d[m][3]))]]

generateValues(months, ranges, includeRel) ==
  { ValuesFromDraws(months, ranges, includeRel, d) :
      d \in [Range(months) ->
               RandomNums \X RandomNums \X
                 (IF includeRel THEN RandomNums ELSE {0})] }

DrawsPerEntry(months, includeRel) ==
  Len(months) * (IF includeRel THEN 3 ELSE 2)

(***************************************************************************)
(* generateEntriesForAllLevels: the paths in the order they are pushed.    *)
(***************************************************************************)
RECURSIVE Flatten(_)
Flatten(ss) == IF ss = <<>> THEN <<>> ELSE Head(ss) \o Flatten(Tail(ss))

\* The first loop: one path per value of levelValues[0].
Level1Paths(levelValues) ==
  [i \in 1..Len(levelValues.items[1].items) |->
     <<levelValues.items[1].items[i]>>]

\* A slip: the recursion stops one level early.
RECURSIVE generatePathsShort(_, _, _)
generatePathsShort(levelValues, currentPath, levelIndex) ==
  IF levelIndex >= Len(levelValues.items) - 1 THEN <<>>
  ELSE LET vals == levelValues.items[levelIndex + 1].items
       IN Flatten([i \in 1..Len(vals) |->
                     <<Append(currentPath, vals[i])>> \o
                       generatePathsShort(levelValues,
                                          Append(currentPath, vals[i]),
                                          levelIndex + 1)])

\* The closure generatePaths(currentPath, levelIndex); levelIndex is the
\* 0-based index of the source, levelValues.items is 1-based.
RECURSIVE generatePaths(_, _, _)
generatePaths(levelValues, currentPath, levelIndex) ==
  IF levelIndex >= Len(levelValues.items) THEN <<>>
  ELSE LET vals == levelValues.items[levelIndex + 1].items
       IN Flatten([i \in 1..Len(vals) |->
                     <<Append(currentPath, vals[i])>> \o
                       generatePaths(levelValues,
                                     Append(currentPath, vals[i]),
                                     levelIndex + 1)])

\* The second loop: generatePaths([value], 1) for each value of levelValues[0].
DeeperPaths(levelValues) ==
  LET vals == levelValues.items[1].items
  IN Flatten([i \in 1..Len(vals) |->
                generatePaths(levelValues, <<vals[i]>>, 1)])

AllPaths(levelValues) == Level1Paths(levelValues) \o DeeperPaths(levelValues)

(***************************************************************************)
(* Validation at the top of generateTreeData.                              *)
(***************************************************************************)
\* A slip: the loop over the individual levels left out.
ValidLevelValuesOuterOnly(levelValues) ==
  /\ levelValues.arr
  /\ Len(levelValues.items) # 0

ValidLevelValues(levelValues) ==
  /\ levelValues.arr
  /\ Len(levelValues.items) # 0
  /\ \A i \in DOMAIN levelValues.items :
       levelValues.items[i].arr /\ Len(levelValues.items[i].items) # 0

(***************************************************************************)
(* normalizeValuesForMonth                                                 *)
(***************************************************************************)
\* children.reduce((sum, child) => sum + child.values[valueType][month], 0)
RECURSIVE SumValues(_, _, _, _)
SumValues(data, children, month, valueType) ==
  IF children = <<>> THEN Num(0)
  ELSE JsAdd(SumValues(data, SubSeq(children, 1, Len(children) - 1),
                       month, valueType),
             data[children[Len(children)]].values[valueType][month])

\* A slip: the residual goes to the first child instead of the last.
normalizeValuesForMonthFirst(data, children, month, valueType, sumConstraint) ==
  LET currentSum == SumValues(data, children, month, valueType)
      scaleFactor == ScaleFactor(sumConstraint, currentSum)
      scaled == [i \in DOMAIN data |->
                   IF i \in Range(children)
                   THEN [data[i] EXCEPT !.values[valueType][month] =
                                          ScaleAndRound(@, scaleFactor)]
                   ELSE data[i]]
      adjustedSum == SumValues(scaled, children, month, valueType)
      first == children[1]
  IN IF adjustedSum # Num(sumConstraint)
     THEN [scaled EXCEPT ![first].values[valueType][month] =
                           JsAdd(@, JsSub(Num(sumConstraint), adjustedSum))]
     ELSE scaled

\* children is the sequence of the positions in data of the group's entries.
normalizeValuesForMonth(data, children, month, valueType, sumConstraint) ==
  LET currentSum == SumValues(data, children, month, valueType)
      scaleFactor == ScaleFactor(sumConstraint, currentSum)
      scaled == [i \in DOMAIN data |->
                   IF i \in Range(children)
                   THEN [data[i] EXCEPT !.values[valueType][month] =
                                          ScaleAndRound(@, scaleFactor)]
                   ELSE data[i]]
      adjustedSum == SumValues(scaled, children, month, valueType)
      last == children[Len(children)]
  IN IF adjustedSum # Num(sumConstraint)
     THEN [scaled EXCEPT ![last].values[valueType][month] =
                           JsAdd(@, JsSub(Num(sumConstraint), adjustedSum))]
     ELSE scaled

(***************************************************************************)
(* normalizeAllLevelValues                                                 *)
(***************************************************************************)
\* parts.join(sep)
RECURSIVE Join(_, _)
Join(parts, sep) ==
  IF parts = <<>> THEN <<>>
  ELSE IF Len(parts) = 1 THEN parts[1]
  ELSE parts[1] \o sep \o Join(Tail(parts), sep)

\* entry.path.slice(0, -1)
ParentPath(path) == SubSeq(path, 1, Len(path) - 1)

\* entry.path.slice(0, -1).join("|")
ParentKey(path) == Join(ParentPath(path), <<"|">>)

\* A slip: <= in place of ===, so shallower entries are taken along.
EntriesUpToLevel(data, lvl) ==
  SelectSeq([i \in DOMAIN data |-> i], LAMBDA i : Len(data[i].path) <= lvl)

\* data.filter((item) => item.path.length === level), as positions in data.
EntriesAtLevel(data, lvl) ==
  SelectSeq([i \in DOMAIN data |-> i], LAMBDA i : Len(data[i].path) = lvl)

\* groupedEntries: the groups in the order their keys are first inserted,
\* each group the positions of its entries in insertion order.
RECURSIVE GroupByKey(_, _, _)
GroupByKey(data, entries, groups) ==
  IF entries = <<>> THEN groups
  ELSE LET e == Head(entries)
           key == ParentKey(data[e].path)
           hit == { g \in DOMAIN groups : groups[g].key = key }
       IN IF hit = {}
          THEN GroupByKey(data, Tail(entries),
                          Append(groups, [key |-> key, members |-> <<e>>]))
          ELSE LET g == CHOOSE h \in hit : TRUE
               IN GroupByKey(data, Tail(entries),
                             [groups EXCEPT ![g].members = Append(@, e)])

GroupedEntries(data, lvl) ==
  IF lvl = 1
  THEN << [key |-> <<"r", "o", "o", "t">>, members |-> EntriesAtLevel(data, 1)] >>
  ELSE GroupByKey(data, EntriesAtLevel(data, lvl), <<>>)

Series == <<"plan", "forecast">>

\* The month loop of one group: plan, then forecast, for each month.
RECURSIVE NormalizeMonths(_, _, _, _)
NormalizeMonths(data, children, months, sumConstraint) ==
  IF months = <<>> THEN data
  ELSE NormalizeMonths(
         normalizeValuesForMonth(
           normalizeValuesForMonth(data, children, Head(months), Series[1],
                                   sumConstraint),
           children, Head(months), Series[2], sumConstraint),
         children, Tail(months), sumConstraint)

RECURSIVE NormalizeGroups(_, _, _, _)
NormalizeGroups(data, groups, months, sumConstraint) ==
  IF groups = <<>> THEN data
  ELSE NormalizeGroups(
         NormalizeMonths(data, Head(groups).members, months, sumConstraint),
         Tail(groups), months, sumConstraint)

\* One iteration of the level loop.
NormalizeLevel(data, lvl, months, sumConstraint) ==
  NormalizeGroups(data, GroupedEntries(data, lvl), months, sumConstraint)

\* The level loop run over the levels in the given order.
RECURSIVE NormalizeInOrder(_, _, _, _)
NormalizeInOrder(data, order, months, sumConstraint) ==
  IF order = <<>> THEN data
  ELSE NormalizeInOrder(NormalizeLevel(data, Head(order), months, sumConstraint),
                        Tail(order), months, sumConstraint)

normalizeAllLevelValues(data, levelValues, months, sumConstraint) ==
  NormalizeInOrder(data, [i \in 1..Len(levelValues.items) |-> i],
                   months, sumConstraint)

(***************************************************************************)
(* The configurations explored: every shape with every constraint, range,  *)
(* month list and rel flag whose number of possible raw collections is at  *)
(* most MaxOutcomes.                                                       *)
(***************************************************************************)
RECURSIVE CappedPower(_, _, _)
CappedPower(b, e, cap) ==
  IF e = 0 THEN 1
  ELSE LET rest == CappedPower(b, e - 1, cap)
       IN IF rest * b > cap THEN cap + 1 ELSE rest * b

Outcomes(c) ==
  IF ~ValidLevelValues(c.levelValues) THEN 1
  ELSE CappedPower(
         Cardinality(generateValues(c.months, c.valueRanges, c.includeRel)),
         Len(AllPaths(c.levelValues)), MaxOutcomes)

Configs ==
  { c \in [levelValues : Shapes, sumConstraint : Constraints,
           months : MonthLists, valueRanges : Ranges, includeRel : BOOLEAN] :
      Outcomes(c) <= MaxOutcomes }

(***************************************************************************)
(* generateTreeData as a state machine.                                    *)
(***************************************************************************)
Init ==
  /\ cfg \in Configs
  /\ pc = "validate"
  /\ result = <<>>
  /\ raw = <<>>
  /\ level = 1
  /\ draws = 0

\* Lines 23-32: a failed check throws before result exists.
ValidateThrow ==
  /\ pc = "validate"
  /\ ~ValidLevelValues(cfg.levelValues)
  /\ pc' = "error"
  /\ UNCHANGED <<cfg, result, raw, level, draws>>

ValidateOk ==
  /\ pc = "validate"
  /\ ValidLevelValues(cfg.levelValues)
  /\ pc' = "generate"
  /\ UNCHANGED <<cfg, result, raw, level, draws>>

\* One result.push of generateEntriesForAllLevels, with its generateValues.
PushEntry(path) ==
  \E values \in generateValues(cfg.months, cfg.valueRanges, cfg.includeRel) :
    /\ result' = Append(result, [path |-> path, values |-> values])
    /\ raw' = Append(raw, [path |-> path, values |-> values])
    /\ draws' = draws + DrawsPerEntry(cfg.months, cfg.includeRel)
    /\ UNCHANGED <<cfg, pc, level>>

\* The loop of lines 64-69.
PushLevel1Entry ==
  /\ pc = "generate"
  /\ Len(result) < Len(Level1Paths(cfg.levelValues))
  /\ PushEntry(Level1Paths(cfg.levelValues)[Len(result) + 1])

\* The pushes of generatePaths, lines 72-94.
PushDeeperEntry ==
  /\ pc = "generate"
  /\ Len(result) >= Len(Level1Paths(cfg.levelValues))
  /\ Len(result) < Len(AllPaths(cfg.levelValues))
  /\ PushEntry(AllPaths(cfg.levelValues)[Len(result) + 1])

EntriesDone ==
  /\ pc = "generate"
  /\ Len(result) = Len(AllPaths(cfg.levelValues))
  /\ pc' = "normalize"
  /\ level' = 1
  /\ UNCHANGED <<cfg, result, raw, draws>>

\* One iteration of the level loop of normalizeAllLevelValues.
NormalizeStep ==
  /\ pc = "normalize"
  /\ level <= Len(cfg.levelValues.items)
  /\ result' = NormalizeLevel(result, level, cfg.months, cfg.sumConstraint)
  /\ level' = level + 1
  /\ UNCHANGED <<cfg, pc, raw, draws>>

Return ==
  /\ pc = "normalize"
  /\ level > Len(cfg.levelValues.items)
  /\ pc' = "done"
  /\ UNCHANGED <<cfg, result, raw, level, draws>>

Next ==
  \/ ValidateThrow
  \/ ValidateOk
  \/ PushLevel1Entry
  \/ PushDeeperEntry
  \/ EntriesDone
  \/ NormalizeStep
  \/ Return

Spec == Init /\ [][Next]_vars

TypeOK ==
  /\ pc \in {"validate", "error", "generate", "normalize", "done"}
  /\ Len(result) = Len(raw)

(***************************************************************************)
(* Vocabulary of the properties.                                           *)
(***************************************************************************)
Months == Range(cfg.months)
Depth == Len(cfg.levelValues.items)
Generated == pc \in {"normalize", "done"}
Positions(data) == [i \in DOMAIN data |-> i]

\* The sibling group of entry i: the entries of the same depth whose parent
\* path is the same sequence of labels, in collection order.
Siblings(data, i) ==
  SelectSeq(Positions(data),
            LAMBDA j : /\ Len(data[j].path) = Len(data[i].path)
                       /\ ParentPath(data[j].path) = ParentPath(data[i].path))

RECURSIVE Total(_, _, _, _)
Total(data, members, month, series) ==
  IF members = <<>> THEN 0
  ELSE data[Head(members)].values[series][month].n +
         Total(data, Tail(members), month, series)

AllNumbers(data, members, month, series) ==
  \A j \in Range(members) : data[j].values[series][month].k = "num"

Reverse(s) == [i \in DOMAIN s |-> s[Len(s) + 1 - i]]

\* C1: in the returned collection every sibling group sums to sumConstraint,
\* for every depth, month and each of plan and forecast.
C1_SumInvariant ==
  pc = "done" =>
    \A i \in DOMAIN result : \A m \in Months : \A s \in Range(Series) :
      /\ AllNumbers(result, Siblings(result, i), m, s)
      /\ Total(result, Siblings(result, i), m, s) = cfg.sumConstraint

\* A sibling group of the raw collection whose series sums to zero.
ZeroSumGroup ==
  \E i \in DOMAIN raw : \E m \in Months : \E s \in Range(Series) :
    Total(raw, Siblings(raw, i), m, s) = 0

\* C2: a sibling group whose raw sum is zero makes generation fail; no
\* returned collection holds a NaN or infinite plan or forecast value.
C2_DegenerateRejected ==
  pc = "done" =>
    /\ ~ZeroSumGroup
    /\ \A i \in DOMAIN result : \A m \in Months : \A s \in Range(Series) :
         result[i].values[s][m].k = "num"

InvalidInput ==
  \/ ~cfg.levelValues.arr
  \/ cfg.levelValues.items = <<>>
  \/ \E i \in DOMAIN cfg.levelValues.items :
       cfg.levelValues.items[i].arr /\ cfg.levelValues.items[i].items = <<>>

\* C3: an empty or non-list levelValues, or an empty level, fails before any
\* value is sampled and before any entry exists.
C3_ValidationFirst ==
  InvalidInput => /\ pc \in {"validate", "error"}
                  /\ result = <<>>
                  /\ draws = 0

C3_Witness ==
  /\ pc = "error"
  /\ cfg.levelValues.arr
  /\ Len(cfg.levelValues.items) = 2
  /\ cfg.levelValues.items[2].arr
  /\ cfg.levelValues.items[2].items = <<>>

DistinctLabels ==
  \A k \in DOMAIN cfg.levelValues.items :
    \A a, b \in DOMAIN cfg.levelValues.items[k].items :
      a # b => cfg.levelValues.items[k].items[a] # cfg.levelValues.items[k].items[b]

\* The tuples of L1 x ... x Lk.
RECURSIVE Tuples(_)
Tuples(k) ==
  IF k = 0 THEN {<<>>}
  ELSE { Append(t, x) : t \in Tuples(k - 1),
                        x \in Range(cfg.levelValues.items[k].items) }

RECURSIVE PrefixCount(_)
PrefixCount(k) ==
  IF k = 0 THEN 0 ELSE PrefixCount(k - 1) + Cardinality(Tuples(k))

\* C4: for distinct labels the returned collection has exactly one entry per
\* non-empty prefix of each tuple of L1 x ... x Ld, and each parent path of an
\* entry deeper than 1 is the path of exactly one entry.
C4_Enumeration ==
  (pc = "done" /\ DistinctLabels) =>
    /\ Len(result) = PrefixCount(Depth)
    /\ { result[i].path : i \in DOMAIN result } =
         UNION { Tuples(k) : k \in 1..Depth }
    /\ \A i, j \in DOMAIN result : i # j => result[i].path # result[j].path
    /\ \A i \in DOMAIN result :
         /\ Len(result[i].path) \in 1..Depth
         /\ Len(result[i].path) > 1 =>
              Cardinality({ j \in DOMAIN result :
                              result[j].path = ParentPath(result[i].path) }) = 1

C4_Witness ==
  /\ pc = "done"
  /\ DistinctLabels
  /\ Depth = 3
  /\ Len(result) = 10

\* C5: with includeRel every rel value is the sampled one, untouched by the
\* normalization of any depth, and an integer in 1..30.
C5_RelUntouched ==
  cfg.includeRel =>
    \A i \in DOMAIN result :
      /\ DOMAIN result[i].values.rel = Months
      /\ \A m \in Months :
           /\ result[i].values.rel[m] = raw[i].values.rel[m]
           /\ result[i].values.rel[m].k = "num"
           /\ result[i].values.rel[m].n \in 1..30

C5_Witness ==
  /\ pc = "done"
  /\ cfg.includeRel
  /\ \E i \in DOMAIN result : \E m \in Months :
       /\ result[i].values.rel[m] = Num(30)
       /\ result[i].values.plan[m] # raw[i].values.plan[m]

\* The member of entry i's sibling group whose last label is the last element
\* of its level's label list.
IsLastLabel(data, i) ==
  LET labels == cfg.levelValues.items[Len(data[i].path)].items
  IN data[i].path[Len(data[i].path)] = labels[Len(labels)]

RECURSIVE RoundedTotal(_, _, _, _, _)
RoundedTotal(members, month, series, C, S) ==
  IF members = <<>> THEN 0
  ELSE MathRound(raw[Head(members)].values[series][month].n * C, S) +
         RoundedTotal(Tail(members), month, series, C, S)

\* C6: in every sibling group with nonzero raw sum S every member but the
\* last-label one ends with round(v * C / S), and the last-label member ends
\* with round(v * C / S) plus C minus the sum of the rounded values.
C6_RoundingRule ==
  pc = "done" =>
    \A i \in DOMAIN result : \A m \in Months : \A s \in Range(Series) :
      LET group == Siblings(raw, i)
          S == Total(raw, group, m, s)
          C == cfg.sumConstraint
          rounded == MathRound(raw[i].values[s][m].n * C, S)
      IN S # 0 =>
           result[i].values[s][m] =
             IF IsLastLabel(raw, i)
             THEN Num(rounded + (C - RoundedTotal(group, m, s, C, S)))
             ELSE Num(rounded)

\* The groups normalizeAllLevelValues forms on data, over all levels.
CodeGroups(data) ==
  UNION { { GroupedEntries(data, lvl)[g].members :
              g \in DOMAIN GroupedEntries(data, lvl) } : lvl \in 1..Depth }

Normalized(data, members, month, series) ==
  /\ AllNumbers(data, members, month, series)
  /\ Total(data, members, month, series) = cfg.sumConstraint

Idempotent ==
  /\ \A members \in CodeGroups(result) : \A m \in Months : \A s \in Range(Series) :
       Normalized(result, members, m, s) =>
         /\ LET sf == ScaleFactor(cfg.sumConstraint,
                                  SumValues(result, members, m, s))
            IN sf.k = "rat" /\ sf.n = sf.d
         /\ normalizeValuesForMonth(result, members, m, s, cfg.sumConstraint)
              = result
  /\ (\A members \in CodeGroups(result) : \A m \in Months : \A s \in Range(Series) :
        Normalized(result, members, m, s))
       => normalizeAllLevelValues(result, cfg.levelValues, cfg.months,
                                  cfg.sumConstraint) = result

C8_LevelsIndependent ==
  Generated =>
    /\ \A lvl \in 1..Depth : \A i \in DOMAIN raw :
         Len(raw[i].path) # lvl =>
           NormalizeLevel(raw, lvl, cfg.months, cfg.sumConstraint)[i] = raw[i]
    /\ \A order \in Permutations(1..Depth) :
         NormalizeInOrder(raw, order, cfg.months, cfg.sumConstraint) =
           normalizeAllLevelValues(raw, cfg.levelValues, cfg.months,
                                   cfg.sumConstraint)
    /\ \A lvl \in 1..Depth :
         NormalizeGroups(raw, Reverse(GroupedEntries(raw, lvl)),
                         Reverse(cfg.months), cfg.sumConstraint) =
           NormalizeLevel(raw, lvl, cfg.months, cfg.sumConstraint)
    /\ \A i \in DOMAIN result :
         result[i] =
           IF pc = "done" \/ Len(raw[i].path) < level
           THEN NormalizeLevel(raw, Len(raw[i].path), cfg.months,
                               cfg.sumConstraint)[i]
           ELSE raw[i]

C8_Witness ==
  /\ pc = "done"
  /\ Depth = 3
  /\ \E i, j \in DOMAIN result : \E m \in Months :
       /\ Len(result[i].path) = 1
       /\ Len(result[j].path) = 3
       /\ result[i].values.plan[m] # raw[i].values.plan[m]
       /\ result[j].values.plan[m] # raw[j].values.plan[m]

\* C9: two entries of the same depth d > 1 are normalized in one group if and
\* only if their parent paths are the same label sequence, also when labels
\* contain "|".
C9_GroupsByParentPath ==
  Generated =>
    \A lvl \in 2..Depth : \A i, j \in DOMAIN raw :
      (Len(raw[i].path) = lvl /\ Len(raw[j].path) = lvl) =>
        ((\E g \in DOMAIN GroupedEntries(raw, lvl) :
            {i, j} \subseteq Range(GroupedEntries(raw, lvl)[g].members))
          <=> ParentPath(raw[i].path) = ParentPath(raw[j].path))

PositiveInputs == cfg.sumConstraint >= 1 /\ cfg.valueRanges.min >= 1

\* C10 as stated: for sumConstraint >= 1 and min >= 1 every plan and
\* forecast value of the returned collection is non-negative.
C10_AsStated ==
  (pc = "done" /\ PositiveInputs) =>
    \A i \in DOMAIN result : \A m \in Months : \A s \in Range(Series) :
      result[i].values[s][m].k = "num" /\ result[i].values[s][m].n >= 0

IsLastSibling(data, i) ==
  LET group == Siblings(data, i) IN group[Len(group)] = i

\* C10 amended: for sumConstraint >= 1 and min >= 1 every plan and forecast
\* value of every entry other than the last sibling of its group is
\* non-negative; the last sibling, which takes the residual, may be negative.
C10_NonLastNonNegative ==
  (pc = "done" /\ PositiveInputs) =>
    \A i \in DOMAIN result : \A m \in Months : \A s \in Range(Series) :
      /\ result[i].values[s][m].k = "num"
      /\ ~IsLastSibling(result, i) => result[i].values[s][m].n >= 0

C10_Witness ==
  /\ pc = "done"
  /\ PositiveInputs
  /\ \E i \in DOMAIN result : \E m \in Months :
       /\ IsLastSibling(result, i)
       /\ result[i].values.plan[m].n < 0
       /\ \A j \in Range(Siblings(result, i)) :
            j # i => result[j].values.plan[m].n = 1

====
